---- MODULE Spec2Model ----
(***************************************************************************)
(* Model of the assignment type checker in src/code.cpp: the DataType      *)
(* conversion relation, SymbolTable (declare / lookup), the Expression     *)
(* hierarchy (LiteralExpr / VariableExpr) and TypeChecker (setLine /       *)
(* checkAssignment).                                                       *)
(***************************************************************************)
EXTENDS Integers, FiniteSets, Sequences, TLC

\* ------------------------------------------------------------------ bounds
\* Largest line number handed to setLine (int currentLine is unbounded).
MaxLine == 1

\* ------------------------------------------------------------- type system
\* enum class DataType
DataType == {"VOID", "CHAR", "INT", "FLOAT", "STRING"}

\* std::string toString(DataType)
toString(type) ==
    CASE type = "VOID"   -> "void"
      [] type = "CHAR"   -> "char"
      [] type = "INT"    -> "int"
      [] type = "FLOAT"  -> "float"
      [] type = "STRING" -> "string"
      [] OTHER           -> "unknown"

\* canImplicitlyConvert whose default case answers true.
canImplicitlyConvert_DefaultTrue(from, to) ==
    IF from = to THEN TRUE
    ELSE CASE to = "INT"   -> from = "CHAR"
           [] to = "FLOAT" -> from = "CHAR" \/ from = "INT"
           [] OTHER        -> TRUE

\* canImplicitlyConvert with the CHAR operand of the FLOAT case dropped.
canImplicitlyConvert_NoCharToFloat(from, to) ==
    IF from = to THEN TRUE
    ELSE CASE to = "INT"   -> from = "CHAR"
           [] to = "FLOAT" -> from = "INT"
           [] OTHER        -> FALSE

\* bool canImplicitlyConvert(DataType from, DataType to)
canImplicitlyConvert(from, to) ==
    IF from = to THEN TRUE
    ELSE CASE to = "INT"   -> from = "CHAR"
           [] to = "FLOAT" -> from = "CHAR" \/ from = "INT"
           [] OTHER        -> FALSE

\* ------------------------------------------------------------ symbol table
\* Variable names used by the callers (main declares x, y, c).
Names == {"x", "y", "c"}

\* std::map<std::string, DataType> symbols, empty after construction.
EmptySymbols == [n \in {} |-> "VOID"]

\* symbols[name] = type
MapPut(symbols, name, type) ==
    [n \in (DOMAIN symbols) \cup {name} |-> IF n = name THEN type ELSE symbols[n]]

\* std::nullopt and std::optional<DataType>{t}
Nullopt == [has |-> FALSE]
Some(t) == [has |-> TRUE, value |-> t]

\* declare without the symbols.count(name) test: it overwrites.
declare_Overwrite(symbols, name, type) ==
    [ret |-> TRUE, symbols |-> MapPut(symbols, name, type)]

\* bool SymbolTable::declare(name, type): the return value and the map after.
declare(symbols, name, type) ==
    IF name \in DOMAIN symbols
    THEN [ret |-> FALSE, symbols |-> symbols]
    ELSE [ret |-> TRUE, symbols |-> MapPut(symbols, name, type)]

\* std::optional<DataType> SymbolTable::lookup(name) const
lookup(symbols, name) ==
    IF name \in DOMAIN symbols THEN Some(symbols[name]) ELSE Nullopt

\* -------------------------------------------------------------- expressions
\* The alternatives of std::variant<char, int, float, std::string>.
LiteralAlts == {"char", "int", "float", "string"}

\* DataType Literal::type() const
LiteralType(alt) ==
    CASE alt = "char"   -> "CHAR"
      [] alt = "int"    -> "INT"
      [] alt = "float"  -> "FLOAT"
      [] alt = "string" -> "STRING"
      [] OTHER          -> "VOID"

\* LiteralExpr(Literal) and VariableExpr(name)
LiteralExpr(alt) == [kind |-> "Literal", alt |-> alt]
VariableExpr(name) == [kind |-> "Variable", name |-> name]
ExpressionOver(names) ==
    {LiteralExpr(a) : a \in LiteralAlts} \cup {VariableExpr(n) : n \in names}
Expression == ExpressionOver(Names)

\* DataType LiteralExpr::getType(const SymbolTable&) const
LiteralExpr_getType(e, symbols) ==
    [thrown |-> FALSE, value |-> LiteralType(e.alt)]

\* DataType VariableExpr::getType(const SymbolTable&) const; a miss throws
\* std::runtime_error, whose what() is recorded.
VariableExpr_getType(e, symbols) ==
    LET typeOpt == lookup(symbols, e.name) IN
    IF ~typeOpt.has
    THEN [thrown |-> TRUE, what |-> "Undeclared variable: " \o e.name]
    ELSE [thrown |-> FALSE, value |-> typeOpt.value]

\* virtual DataType Expression::getType(const SymbolTable&) const
getType(e, symbols) ==
    IF e.kind = "Literal" THEN LiteralExpr_getType(e, symbols)
    ELSE VariableExpr_getType(e, symbols)

\* -------------------------------------------------------------- type checker
\* void TypeChecker::reportError(msg) const: one line on std::cerr.
reportError(currentLine, msg) ==
    [stream |-> "cerr", label |-> "Semantic Error", line |-> currentLine, msg |-> msg]

\* The "Assignment OK" line written to std::cout on success.
reportOk(currentLine, varName, lhsType, rhsType) ==
    [stream |-> "cout", label |-> "Assignment OK", line |-> currentLine,
     msg |-> varName \o " (" \o toString(lhsType) \o ") = expression of type "
             \o toString(rhsType)]

\* The outcome of one checkAssignment call: the bool returned, the line
\* written, whether an exception left the call, and the symbol table after.
Outcome(ret, out, fault, symbols) ==
    [ret |-> ret, out |-> out, fault |-> fault, symbols |-> symbols]

\* What leaves the call when an exception is not caught.
Uncaught(what, symbols) ==
    [ret |-> FALSE,
     out |-> [stream |-> "none", label |-> "terminate", line |-> 0, msg |-> what],
     fault |-> TRUE, symbols |-> symbols]

\* checkAssignment with the arguments of canImplicitlyConvert swapped.
checkAssignment_SwappedConvert(symbols, currentLine, varName, rhsExpr) ==
    LET lhsTypeOpt == lookup(symbols, varName) IN
    IF ~lhsTypeOpt.has
    THEN Outcome(FALSE, reportError(currentLine, "Undeclared variable '" \o varName \o "'"),
                 FALSE, symbols)
    ELSE LET lhsType == lhsTypeOpt.value
             r == getType(rhsExpr, symbols) IN
         IF r.thrown
         THEN Outcome(FALSE, reportError(currentLine, r.what), FALSE, symbols)
         ELSE IF ~canImplicitlyConvert(lhsType, r.value)
              THEN Outcome(FALSE,
                       reportError(currentLine,
                           "Type mismatch: cannot assign " \o toString(r.value)
                           \o " to variable of type " \o toString(lhsType)),
                       FALSE, symbols)
              ELSE Outcome(TRUE, reportOk(currentLine, varName, lhsType, r.value),
                           FALSE, symbols)

\* checkAssignment that resolves the right-hand side before the target lookup.
checkAssignment_RhsFirst(symbols, currentLine, varName, rhsExpr) ==
    LET r == getType(rhsExpr, symbols) IN
    IF r.thrown
    THEN Outcome(FALSE, reportError(currentLine, r.what), FALSE, symbols)
    ELSE LET lhsTypeOpt == lookup(symbols, varName) IN
         IF ~lhsTypeOpt.has
         THEN Outcome(FALSE,
                  reportError(currentLine, "Undeclared variable '" \o varName \o "'"),
                  FALSE, symbols)
         ELSE IF ~canImplicitlyConvert(r.value, lhsTypeOpt.value)
              THEN Outcome(FALSE,
                       reportError(currentLine,
                           "Type mismatch: cannot assign " \o toString(r.value)
                           \o " to variable of type " \o toString(lhsTypeOpt.value)),
                       FALSE, symbols)
              ELSE Outcome(TRUE,
                       reportOk(currentLine, varName, lhsTypeOpt.value, r.value),
                       FALSE, symbols)

\* checkAssignment without the try/catch around getType.
checkAssignment_NoCatch(symbols, currentLine, varName, rhsExpr) ==
    LET lhsTypeOpt == lookup(symbols, varName) IN
    IF ~lhsTypeOpt.has
    THEN Outcome(FALSE, reportError(currentLine, "Undeclared variable '" \o varName \o "'"),
                 FALSE, symbols)
    ELSE LET lhsType == lhsTypeOpt.value
             r == getType(rhsExpr, symbols) IN
         IF r.thrown
         THEN Uncaught(r.what, symbols)
         ELSE IF ~canImplicitlyConvert(r.value, lhsType)
              THEN Outcome(FALSE,
                       reportError(currentLine,
                           "Type mismatch: cannot assign " \o toString(r.value)
                           \o " to variable of type " \o toString(lhsType)),
                       FALSE, symbols)
              ELSE Outcome(TRUE, reportOk(currentLine, varName, lhsType, r.value),
                           FALSE, symbols)

\* checkAssignment that accepts only while currentLine is 0.
checkAssignment_LineDependent(symbols, currentLine, varName, rhsExpr) ==
    LET lhsTypeOpt == lookup(symbols, varName) IN
    IF ~lhsTypeOpt.has
    THEN Outcome(FALSE, reportError(currentLine, "Undeclared variable '" \o varName \o "'"),
                 FALSE, symbols)
    ELSE LET lhsType == lhsTypeOpt.value
             r == getType(rhsExpr, symbols) IN
         IF r.thrown
         THEN Outcome(FALSE, reportError(currentLine, r.what), FALSE, symbols)
         ELSE IF ~canImplicitlyConvert(r.value, lhsType) \/ currentLine # 0
              THEN Outcome(FALSE,
                       reportError(currentLine,
                           "Type mismatch: cannot assign " \o toString(r.value)
                           \o " to variable of type " \o toString(lhsType)),
                       FALSE, symbols)
              ELSE Outcome(TRUE, reportOk(currentLine, varName, lhsType, r.value),
                           FALSE, symbols)

\* checkAssignment that reads the target with symbols[varName], which inserts
\* a value-initialised (VOID) entry for an absent name.
checkAssignment_ImplicitDeclare(symbols, currentLine, varName, rhsExpr) ==
    LET lhsTypeOpt == lookup(symbols, varName) IN
    IF ~lhsTypeOpt.has
    THEN Outcome(FALSE, reportError(currentLine, "Undeclared variable '" \o varName \o "'"),
                 FALSE, MapPut(symbols, varName, "VOID"))
    ELSE LET lhsType == lhsTypeOpt.value
             r == getType(rhsExpr, symbols) IN
         IF r.thrown
         THEN Outcome(FALSE, reportError(currentLine, r.what), FALSE, symbols)
         ELSE IF ~canImplicitlyConvert(r.value, lhsType)
              THEN Outcome(FALSE,
                       reportError(currentLine,
                           "Type mismatch: cannot assign " \o toString(r.value)
                           \o " to variable of type " \o toString(lhsType)),
                       FALSE, symbols)
              ELSE Outcome(TRUE, reportOk(currentLine, varName, lhsType, r.value),
                           FALSE, symbols)

\* bool TypeChecker::checkAssignment(varName, rhsExpr), on the checker's
\* fields (the referenced symbol table, currentLine).
checkAssignment(symbols, currentLine, varName, rhsExpr) ==
    LET lhsTypeOpt == lookup(symbols, varName) IN
    IF ~lhsTypeOpt.has
    THEN Outcome(FALSE, reportError(currentLine, "Undeclared variable '" \o varName \o "'"),
                 FALSE, symbols)
    ELSE LET lhsType == lhsTypeOpt.value
             r == getType(rhsExpr, symbols) IN
         IF r.thrown
         THEN Outcome(FALSE, reportError(currentLine, r.what), FALSE, symbols)
         ELSE IF ~canImplicitlyConvert(r.value, lhsType)
              THEN Outcome(FALSE,
                       reportError(currentLine,
                           "Type mismatch: cannot assign " \o toString(r.value)
                           \o " to variable of type " \o toString(lhsType)),
                       FALSE, symbols)
              ELSE Outcome(TRUE, reportOk(currentLine, varName, lhsType, r.value),
                           FALSE, symbols)

\* ------------------------------------------------------------------- state
VARIABLES
    symbols,        \* SymbolTable::symbols
    currentLine,    \* TypeChecker::currentLine
    firstDeclared,  \* history: the type of the first declare call per name
    redeclared,     \* history: names declared again with another type
    last,           \* the most recent call: arguments, table before, outcome
    memo,           \* history: an earlier checkAssignment call on this table
    convArgs,       \* three DataType inputs of the conversion relation
    convRes         \* the relation evaluated on convArgs

vars == <<symbols, currentLine, firstDeclared, redeclared, last, memo, convArgs, convRes>>

NoCall == [op |-> "none"]

Init ==
    /\ symbols = EmptySymbols
    /\ currentLine = 0
    /\ firstDeclared = EmptySymbols
    /\ redeclared = {}
    /\ last = NoCall
    /\ memo = NoCall
    /\ convArgs = <<"VOID", "VOID", "VOID">>
    /\ convRes = NoCall

\* symTab.declare(name, type)
Declare(name, type) ==
    LET d == declare(symbols, name, type) IN
    /\ symbols' = d.symbols
    /\ firstDeclared' = IF name \in DOMAIN firstDeclared THEN firstDeclared
                        ELSE MapPut(firstDeclared, name, type)
    /\ redeclared' = IF name \in DOMAIN firstDeclared /\ firstDeclared[name] # type
                     THEN redeclared \cup {name} ELSE redeclared
    /\ last' = [op |-> "declare", name |-> name, type |-> type,
                pre |-> symbols, ret |-> d.ret]
    /\ memo' = IF d.symbols = symbols THEN memo ELSE NoCall
    /\ UNCHANGED <<currentLine, convArgs, convRes>>

\* symTab.lookup(name)
Lookup(name) ==
    /\ last' = [op |-> "lookup", name |-> name, pre |-> symbols,
                ret |-> lookup(symbols, name)]
    /\ UNCHANGED <<symbols, currentLine, firstDeclared, redeclared, memo,
                   convArgs, convRes>>

\* checker.setLine(line)
SetLine(line) ==
    /\ currentLine' = line
    /\ last' = [op |-> "setLine", line |-> line, pre |-> symbols]
    /\ UNCHANGED <<symbols, firstDeclared, redeclared, memo, convArgs, convRes>>

\* checker.checkAssignment(varName, rhsExpr); remember says whether the
\* history variable memo keeps this call.
CheckAssignment(varName, rhsExpr, remember) ==
    LET o == checkAssignment(symbols, currentLine, varName, rhsExpr)
        call == [op |-> "check", varName |-> varName, rhsExpr |-> rhsExpr,
                 line |-> currentLine, pre |-> symbols,
                 ret |-> o.ret, out |-> o.out, fault |-> o.fault] IN
    /\ symbols' = o.symbols
    /\ last' = call
    /\ memo' = IF o.symbols # symbols THEN NoCall
               ELSE IF remember THEN call ELSE memo
    /\ UNCHANGED <<currentLine, firstDeclared, redeclared, convArgs, convRes>>

Next ==
    \/ \E name \in Names, type \in DataType : Declare(name, type)
    \/ \E name \in Names : Lookup(name)
    \/ \E line \in 0..MaxLine : SetLine(line)
    \/ \E varName \in Names, rhsExpr \in Expression :
           CheckAssignment(varName, rhsExpr, FALSE)

Spec == Init /\ [][Next]_vars

\* ------------------------------------------- pairs of checkAssignment calls
\* The same operations over two names, with any earlier checkAssignment call
\* on the current table kept in memo for comparison with a later one.
HistoryNames == {"x", "y"}

HistoryNext ==
    \/ \E name \in HistoryNames, type \in DataType : Declare(name, type)
    \/ \E name \in HistoryNames : Lookup(name)
    \/ \E line \in 0..MaxLine : SetLine(line)
    \/ \E varName \in HistoryNames, rhsExpr \in ExpressionOver(HistoryNames),
          remember \in BOOLEAN :
           CheckAssignment(varName, rhsExpr, remember)

HistorySpec == Init /\ [][HistoryNext]_vars

\* ------------------------------------------- the conversion relation alone
LatticeInit ==
    /\ symbols = EmptySymbols
    /\ currentLine = 0
    /\ firstDeclared = EmptySymbols
    /\ redeclared = {}
    /\ last = NoCall
    /\ memo = NoCall
    /\ convArgs \in DataType \X DataType \X DataType
    /\ convRes = NoCall

\* Evaluate canImplicitlyConvert on the pairs of the chosen triple.
Evaluate ==
    /\ convRes = NoCall
    /\ convRes' = [op |-> "convert",
                   ab |-> canImplicitlyConvert(convArgs[1], convArgs[2]),
                   ba |-> canImplicitlyConvert(convArgs[2], convArgs[1]),
                   bc |-> canImplicitlyConvert(convArgs[2], convArgs[3]),
                   ac |-> canImplicitlyConvert(convArgs[1], convArgs[3]),
                   aa |-> canImplicitlyConvert(convArgs[1], convArgs[1])]
    /\ UNCHANGED <<symbols, currentLine, firstDeclared, redeclared, last, memo,
                   convArgs>>

\* Choose the next triple of inputs.
Choose(a, b, c) ==
    /\ convRes # NoCall
    /\ convArgs' = <<a, b, c>>
    /\ convRes' = NoCall
    /\ UNCHANGED <<symbols, currentLine, firstDeclared, redeclared, last, memo>>

LatticeNext ==
    \/ Evaluate
    \/ \E a \in DataType, b \in DataType, c \in DataType : Choose(a, b, c)

LatticeSpec == LatticeInit /\ [][LatticeNext]_vars

\* ================================================================== claims
\* The three widening pairs named by the specification.
Widening == {<<"CHAR", "INT">>, <<"CHAR", "FLOAT">>, <<"INT", "FLOAT">>}
ExpectedConvertible(from, to) == from = to \/ <<from, to>> \in Widening

\* The entry of a table as lookup is specified to report it.
Entry(table, n) == IF n \in DOMAIN table THEN Some(table[n]) ELSE Nullopt

\* The type an expression is specified to resolve to on a table that
\* declares every name it references.
ResolvedType(e, table) ==
    IF e.kind = "Literal" THEN LiteralType(e.alt) ELSE table[e.name]
Resolves(e, table) == e.kind = "Literal" \/ e.name \in DOMAIN table

\* The failure mode the specification assigns to a checkAssignment call.
Mode(call) ==
    IF call.varName \notin DOMAIN call.pre THEN "UndeclaredTarget"
    ELSE IF ~Resolves(call.rhsExpr, call.pre) THEN "UndeclaredSource"
    ELSE IF ~ExpectedConvertible(ResolvedType(call.rhsExpr, call.pre),
                                 call.pre[call.varName]) THEN "TypeMismatch"
    ELSE "Accepted"

\* C1: over the five types, canImplicitlyConvert(from, to) is true exactly
\* for from = to and for Char->Int, Char->Float, Int->Float, and false for
\* every other ordered pair: 8 true pairs of 25.
C1_ConvertExactly ==
    convRes # NoCall =>
        /\ convRes.ab = ExpectedConvertible(convArgs[1], convArgs[2])
        /\ convRes.ba = ExpectedConvertible(convArgs[2], convArgs[1])
        /\ convRes.bc = ExpectedConvertible(convArgs[2], convArgs[3])
        /\ convRes.ac = ExpectedConvertible(convArgs[1], convArgs[3])
        /\ convRes.aa = TRUE
        /\ Cardinality({p \in DataType \X DataType :
                            canImplicitlyConvert(p[1], p[2])}) = 8

\* C1 witness: Char->Float evaluated to true and Float->String to false.
C1_Witness ==
    /\ convRes # NoCall
    /\ convArgs = <<"CHAR", "FLOAT", "STRING">>
    /\ convRes.ab /\ ~convRes.ba /\ ~convRes.bc /\ ~convRes.ac

\* C2: declare of a name already in the table returns false and leaves every
\* entry unchanged; declare of a new name returns true and the table becomes
\* the old table plus exactly name -> type.
C2_DeclareContract ==
    last.op = "declare" =>
        IF last.name \in DOMAIN last.pre
        THEN /\ last.ret = FALSE
             /\ symbols = last.pre
        ELSE /\ last.ret = TRUE
             /\ DOMAIN symbols = (DOMAIN last.pre) \cup {last.name}
             /\ symbols[last.name] = last.type
             /\ \A n \in DOMAIN last.pre : symbols[n] = last.pre[n]

\* C2 witness: a declare of a present name with another type was rejected.
C2_Witness ==
    /\ last.op = "declare"
    /\ last.name \in DOMAIN last.pre
    /\ last.type # last.pre[last.name]
    /\ last.ret = FALSE

\* C3: with the target declared as T and the right-hand side resolving to S,
\* checkAssignment accepts (reporting T and S) exactly when S converts to T,
\* and otherwise rejects with a type mismatch naming S and T; Int into Float
\* is accepted, Int into Char and String into Int are rejected.
C3_AcceptIffConvertible ==
    (/\ last.op = "check"
     /\ last.varName \in DOMAIN last.pre
     /\ Resolves(last.rhsExpr, last.pre)) =>
        LET T == last.pre[last.varName]
            S == ResolvedType(last.rhsExpr, last.pre) IN
        /\ ~last.fault
        /\ last.ret = ExpectedConvertible(S, T)
        /\ IF ExpectedConvertible(S, T)
           THEN /\ last.out.stream = "cout"
                /\ last.out.label = "Assignment OK"
                /\ last.out.msg = last.varName \o " (" \o toString(T)
                                  \o ") = expression of type " \o toString(S)
           ELSE /\ last.out.stream = "cerr"
                /\ last.out.msg = "Type mismatch: cannot assign " \o toString(S)
                                  \o " to variable of type " \o toString(T)
        /\ (T = "FLOAT" /\ S = "INT") => last.ret
        /\ (T = "CHAR" /\ S = "INT") => ~last.ret
        /\ (T = "INT" /\ S = "STRING") => ~last.ret

\* C3 witness: with x:Int, y:Float, c:Char, y = Variable(x) was accepted.
C3_Witness ==
    /\ last.op = "check"
    /\ DOMAIN last.pre = {"x", "y", "c"}
    /\ last.pre["x"] = "INT" /\ last.pre["y"] = "FLOAT" /\ last.pre["c"] = "CHAR"
    /\ last.varName = "y"
    /\ last.rhsExpr = VariableExpr("x")
    /\ last.ret = TRUE
    /\ last.out.msg = "y (float) = expression of type int"

\* C4: with the target absent from the table, checkAssignment rejects with
\* the undeclared-target report for every right-hand side, an undeclared
\* variable included; it never reports an undeclared source or a mismatch.
C4_TargetDecidedFirst ==
    (last.op = "check" /\ last.varName \notin DOMAIN last.pre) =>
        /\ ~last.fault
        /\ last.ret = FALSE
        /\ last.out.stream = "cerr"
        /\ last.out.msg = "Undeclared variable '" \o last.varName \o "'"
        /\ \A n \in Names : last.out.msg # "Undeclared variable: " \o n
        /\ \A s \in DataType, t \in DataType :
               last.out.msg # "Type mismatch: cannot assign " \o toString(s)
                              \o " to variable of type " \o toString(t)

\* C4 witness: a check whose target and whose variable operand (another
\* name) are both undeclared.
C4_Witness ==
    /\ last.op = "check"
    /\ last.varName \notin DOMAIN last.pre
    /\ last.rhsExpr.kind = "Variable"
    /\ last.rhsExpr.name \notin DOMAIN last.pre
    /\ last.rhsExpr.name # last.varName
    /\ last.ret = FALSE

\* C5: with the target declared and the right-hand side a variable n absent
\* from the table, checkAssignment returns normally, rejecting with the
\* undeclared-source report that carries n; no exception leaves the call.
C5_UndeclaredSourceCaught ==
    (/\ last.op = "check"
     /\ last.varName \in DOMAIN last.pre
     /\ last.rhsExpr.kind = "Variable"
     /\ last.rhsExpr.name \notin DOMAIN last.pre) =>
        /\ ~last.fault
        /\ last.ret = FALSE
        /\ last.out.stream = "cerr"
        /\ last.out.msg = "Undeclared variable: " \o last.rhsExpr.name

\* C5 witness: a declared target assigned from an undeclared variable.
C5_Witness ==
    /\ last.op = "check"
    /\ last.varName \in DOMAIN last.pre
    /\ last.rhsExpr.kind = "Variable"
    /\ last.rhsExpr.name \notin DOMAIN last.pre
    /\ ~last.fault
    /\ last.out.label = "Semantic Error"

\* C6: the value returned by checkAssignment tells the failure modes apart:
\* two calls rejected for different reasons (undeclared target, undeclared
\* source, type mismatch) return different values.
C6_ReturnDistinguishesModes ==
    (/\ memo # NoCall
     /\ last.op = "check"
     /\ Mode(memo) # "Accepted"
     /\ Mode(last) # "Accepted"
     /\ Mode(memo) # Mode(last)) =>
        memo.ret # last.ret

\* C7: on a fixed table, two checkAssignment calls with the same target and
\* expression give the same result, whatever calls came between them and
\* whatever the line tag was at either call.
C7_Deterministic ==
    (/\ memo # NoCall
     /\ last.op = "check"
     /\ memo.pre = last.pre
     /\ memo.varName = last.varName
     /\ memo.rhsExpr = last.rhsExpr) =>
        /\ memo.ret = last.ret
        /\ memo.fault = last.fault
        /\ memo.out.stream = last.out.stream
        /\ memo.out.msg = last.out.msg

\* C7 witness: the same accepted check made at two different line tags.
C7_Witness ==
    /\ memo # NoCall
    /\ last.op = "check"
    /\ memo.pre = last.pre
    /\ memo.varName = last.varName
    /\ memo.rhsExpr = last.rhsExpr
    /\ memo.line # last.line
    /\ last.ret = TRUE

\* C8: checkAssignment leaves the symbol table as it found it on every
\* outcome; a check of an undeclared target does not declare it.
C8_CheckLeavesTable ==
    last.op = "check" =>
        /\ symbols = last.pre
        /\ last.varName \notin DOMAIN last.pre =>
               lookup(symbols, last.varName) = Nullopt

\* C8 witness: after a check of an undeclared target the target is absent.
C8_Witness ==
    /\ last.op = "check"
    /\ last.varName \notin DOMAIN last.pre
    /\ last.varName \notin DOMAIN symbols
    /\ DOMAIN symbols # {}

\* C9: lookup(name) gives the type of the first declare call for name,
\* whatever was declared or checked afterwards, and gives absent for a name
\* never declared.
C9_LookupFirstDeclared ==
    /\ \A n \in Names : lookup(symbols, n) = Entry(firstDeclared, n)
    /\ last.op = "lookup" => last.ret = Entry(firstDeclared, last.name)

\* C9 witness: a lookup of a name that was declared again with another type
\* returned the first type, while another name is still absent.
C9_Witness ==
    /\ last.op = "lookup"
    /\ last.name \in redeclared
    /\ last.ret = Some(firstDeclared[last.name])
    /\ \E n \in Names : lookup(symbols, n) = Nullopt

\* C10: canImplicitlyConvert is a partial order on the five types: reflexive,
\* antisymmetric and transitive.
C10_PartialOrder ==
    convRes # NoCall =>
        /\ convRes.aa
        /\ (convRes.ab /\ convRes.ba) => convArgs[1] = convArgs[2]
        /\ (convRes.ab /\ convRes.bc) => convRes.ac

\* C10 witness: Char->Int and Int->Float evaluated together with Char->Float.
C10_Witness ==
    /\ convRes # NoCall
    /\ convArgs = <<"CHAR", "INT", "FLOAT">>
    /\ convRes.ab /\ convRes.bc /\ convRes.ac

====
